---- MODULE Spec2Model ----
(***************************************************************************)
(* Model of internal/recipe/validation.py: the Spark-side validation       *)
(* script.  One run of the script is one behaviour: __main__ parses        *)
(* --test, walks its four `if` statements, and the selected scenario       *)
(* function issues one spark.sql statement, collects/shows the result and  *)
(* evaluates its assert statements in program order.  An uncaught          *)
(* exception (AssertionError, KeyError, an error raised by the engine)     *)
(* ends the interpreter with exit status 1; falling off the end of         *)
(* __main__ ends it with exit status 0.                                    *)
(***************************************************************************)
EXTENDS Integers, Sequences, FiniteSets, TLC

VARIABLES
    test,           \* args.test
    pc,             \* the statement the interpreter is at
    df,             \* the DataFrame spark.sql returned: [schema, rows]
    rows,           \* the Python list df.collect() returned
    props,          \* testSetProperties: the dict built at line 28
    metadata,       \* testReadSpecUpdate: the dict built at line 145
    expected_rows,  \* testReadDifferentDataTypes: expected_df.collect()
    queries,        \* number of spark.sql statements issued so far
    ran,            \* scenario functions entered, in order
    evaluated,      \* labels of the assert statements evaluated, in order
    failed,         \* the assert statements that did not hold, in order
    raised,         \* the uncaught exception and the statement that raised it
    exitCode        \* process exit status, Running until the process ends

vars == <<test, pc, df, rows, props, metadata, expected_rows, queries, ran,
          evaluated, failed, raised, exitCode>>

(***************************************************************************)
(* Bounds of the model.                                                    *)
(***************************************************************************)
\* Longest DESCRIBE TABLE EXTENDED result the engine is taken to return.
MaxDescRows == 3
\* Most rows the COUNT(*) result is taken to hold.
MaxCountRows == 2
\* The counts the engine may report lie within this distance of 13.
CountSpread == 2

(***************************************************************************)
(* Python values.  Every value carries its runtime type in field t, so     *)
(* that `==` between values of different types is False, as in Python.     *)
(***************************************************************************)
None == [t |-> "NoneType"]
Str(s) == [t |-> "str", v |-> s]
PyInt(i) == [t |-> "int", v |-> i]
PyBool(b) == [t |-> "bool", v |-> b]
\* A float is carried by its shortest repr.
PyFloat(r) == [t |-> "float", v |-> r]
\* decimal.Decimal as_tuple(): sign, coefficient digits, exponent.
Decimal(sign, digits, exp) == [t |-> "Decimal", sign |-> sign, digits |-> digits, exp |-> exp]
DateTime(y, mo, d, h, mi) == [t |-> "datetime", y |-> y, mo |-> mo, d |-> d, h |-> h, mi |-> mi]
Date(y, mo, d) == [t |-> "date", y |-> y, mo |-> mo, d |-> d]
ByteArray(bs) == [t |-> "bytearray", v |-> bs]
PyList(xs) == [t |-> "list", v |-> xs]

RECURSIVE Repeat(_, _)
\* s * n for a Python sequence s
Repeat(s, n) == IF n = 0 THEN <<>> ELSE s \o Repeat(s, n - 1)

RECURSIVE RepeatStr(_, _)
\* s * n for a Python str s
RepeatStr(s, n) == IF n = 0 THEN "" ELSE s \o RepeatStr(s, n - 1)

RECURSIVE StripZeros(_)
\* a coefficient without its leading zeros
StripZeros(ds) == IF ds # <<>> /\ Head(ds) = 0 THEN StripZeros(Tail(ds)) ELSE ds

\* The coefficient of d written at exponent e <= d.exp (zeros appended).
CoefficientAt(d, e) == StripZeros(d.digits \o Repeat(<<0>>, d.exp - e))

\* Decimal.__eq__: numerical equality, whatever the two exponents.
DecimalEq(a, b) ==
    LET e == IF a.exp < b.exp THEN a.exp ELSE b.exp
        ca == CoefficientAt(a, e)
        cb == CoefficientAt(b, e)
    IN  /\ ca = cb
        /\ (a.sign = b.sign \/ ca = <<>>)

\* Python's a == b on the values above.
PyEq(a, b) ==
    /\ a.t = b.t
    /\ IF a.t = "Decimal" THEN DecimalEq(a, b) ELSE a = b

\* tuple.__eq__ / list.__eq__: same length and equal item by item, in order.
SeqEq(a, b) ==
    /\ Len(a) = Len(b)
    /\ \A i \in 1..Len(a) : PyEq(a[i], b[i])

\* Mutant of RowsEq: the two lists hold the same rows, in any order.
RowsEq_Unordered(a, b) ==
    /\ Len(a) = Len(b)
    /\ \A i \in 1..Len(a) : \E j \in 1..Len(b) : SeqEq(a[i], b[j])
    /\ \A j \in 1..Len(b) : \E i \in 1..Len(a) : SeqEq(a[i], b[j])

\* list.__eq__ on lists of Row (Row is a tuple subclass).
RowsEq(a, b) ==
    /\ Len(a) = Len(b)
    /\ \A i \in 1..Len(a) : SeqEq(a[i], b[i])

\* All sequences over S of length at most n.
SeqsUpTo(S, n) == UNION {[1..k -> S] : k \in 0..n}

(***************************************************************************)
(* __main__                                                                *)
(***************************************************************************)
Running == -1

TestNames == {"TestSetProperties", "TestAddedFile",
              "TestReadDifferentDataTypes", "TestReadSpecUpdate"}

\* Values of --test: the four names, and strings that are none of them.
TestArgs == TestNames \cup {"TestUnknown", "testsetproperties", ""}

\* Mutant of Raise: the exception is swallowed and the process exits 0.
Raise_Swallowed(exc) ==
    /\ raised' = [exc |-> exc, at |-> pc]
    /\ exitCode' = 0
    /\ pc' = "done"

\* An exception nobody catches: the traceback is printed, exit status 1.
Raise(exc) ==
    /\ raised' = [exc |-> exc, at |-> pc]
    /\ exitCode' = 1
    /\ pc' = "done"

\* Mutant of MainIf: the name is compared without regard to case.
MainIf_IgnoreCase(here, name, entry, next) ==
    /\ pc = here
    /\ IF test = name \/ (test = "testsetproperties" /\ name = "TestSetProperties")
          THEN pc' = entry /\ ran' = Append(ran, name)
          ELSE pc' = next /\ UNCHANGED ran
    /\ UNCHANGED <<test, df, rows, props, metadata, expected_rows, queries,
                   evaluated, failed, raised, exitCode>>

\* One `if args.test == name: f()` of __main__.
MainIf(here, name, entry, next) ==
    /\ pc = here
    /\ IF test = name
          THEN pc' = entry /\ ran' = Append(ran, name)
          ELSE pc' = next /\ UNCHANGED ran
    /\ UNCHANGED <<test, df, rows, props, metadata, expected_rows, queries,
                   evaluated, failed, raised, exitCode>>

\* Mutant of SparkSql: a failed statement is issued once more.
SparkSql_Retry(here, next, replies) ==
    /\ pc = here
    /\ queries' = queries + 1
    /\ \/ /\ \E r \in replies : df' = r
          /\ pc' = next
          /\ UNCHANGED <<raised, exitCode>>
       \/ /\ IF queries = 0
                THEN pc' = here /\ UNCHANGED <<raised, exitCode>>
                ELSE Raise("EngineError")
          /\ UNCHANGED df
    /\ UNCHANGED <<test, rows, props, metadata, expected_rows, ran, evaluated, failed>>

\* spark.sql(statement): the engine answers with one of `replies` or raises.
SparkSql(here, next, replies) ==
    /\ pc = here
    /\ queries' = queries + 1
    /\ \/ /\ \E r \in replies : df' = r
          /\ pc' = next
          /\ UNCHANGED <<raised, exitCode>>
       \/ /\ Raise("EngineError")
          /\ UNCHANGED df
    /\ UNCHANGED <<test, rows, props, metadata, expected_rows, ran, evaluated, failed>>

\* df.show(truncate=False): prints, or the engine raises.
DfShow(here, next) ==
    /\ pc = here
    /\ \/ pc' = next /\ UNCHANGED <<raised, exitCode>>
       \/ Raise("EngineError")
    /\ UNCHANGED <<test, df, rows, props, metadata, expected_rows, queries, ran,
                   evaluated, failed>>

\* Mutant of AssertStmt: a failed assert is recorded and the run goes on.
AssertStmt_Continue(label, cond, next) ==
    /\ evaluated' = Append(evaluated, label)
    /\ pc' = next
    /\ failed' = IF cond THEN failed
                 ELSE Append(failed, [label |-> label, exc |-> "AssertionError"])
    /\ UNCHANGED <<raised, exitCode>>

\* An assert statement whose condition evaluated to cond.
AssertStmt(label, cond, next) ==
    /\ evaluated' = Append(evaluated, label)
    /\ IF cond
          THEN /\ pc' = next
               /\ UNCHANGED <<failed, raised, exitCode>>
          ELSE /\ failed' = Append(failed, [label |-> label, exc |-> "AssertionError"])
               /\ Raise("AssertionError")

\* An assert statement whose condition subscripts a dict with a missing key.
KeyErrorStmt(label) ==
    /\ evaluated' = Append(evaluated, label)
    /\ failed' = Append(failed, [label |-> label, exc |-> "KeyError"])
    /\ Raise("KeyError")

\* An assert statement whose condition subscripts an empty list.
IndexErrorStmt(label) ==
    /\ evaluated' = Append(evaluated, label)
    /\ failed' = Append(failed, [label |-> label, exc |-> "IndexError"])
    /\ Raise("IndexError")

\* assert d[key] == want
AssertItem(here, next, d, key, want) ==
    /\ pc = here
    /\ IF Str(key) \in DOMAIN d
          THEN AssertStmt(key, PyEq(d[Str(key)], Str(want)), next)
          ELSE KeyErrorStmt(key)

If1 == MainIf("if1", "TestSetProperties", "sp_sql", "if2")
If2 == MainIf("if2", "TestAddedFile", "af_sql", "if3")
If3 == MainIf("if3", "TestReadDifferentDataTypes", "dt_sql", "if4")
If4 == MainIf("if4", "TestReadSpecUpdate", "su_sql", "exit")

\* The end of the script: the interpreter exits with status 0.
Exit ==
    /\ pc = "exit"
    /\ pc' = "done"
    /\ exitCode' = 0
    /\ UNCHANGED <<test, df, rows, props, metadata, expected_rows, queries, ran,
                   evaluated, failed, raised>>

(***************************************************************************)
(* testSetProperties                                                       *)
(***************************************************************************)
PropKeys == <<"write.parquet.compression-codec",
              "commit.manifest-merge.enabled",
              "commit.manifest.min-count-to-merge",
              "commit.manifest.target-size-bytes">>

\* Mutant of PropWant: the last literal is mistyped.
PropWant_Typo == <<"snappy", "true", "1", "true">>

\* The values the four assert statements compare with, by position in PropKeys.
PropWant == <<"snappy", "true", "1", "1">>

\* Values the engine may report for a property.
PropValues == {"snappy", "true", "1", "zstd"}

Absent == "<absent>"

RECURSIVE PropRows(_, _)
\* The rows of SHOW TBLPROPERTIES for the table whose property PropKeys[i] is
\* m[i] (no row when m[i] is Absent), keys i..4.
PropRows(m, i) ==
    IF i > Len(PropKeys) THEN <<>>
    ELSE (IF m[i] = Absent THEN <<>>
          ELSE <<[key |-> Str(PropKeys[i]), value |-> Str(m[i])]>>)
         \o PropRows(m, i + 1)

\* What SHOW TBLPROPERTIES may answer: any subset of the four properties,
\* each with any of PropValues.
PropReplies ==
    {[schema |-> <<"key", "value">>, rows |-> PropRows(m, 1)] :
        m \in [1..Len(PropKeys) -> PropValues \cup {Absent}]}

\* Mutant of DictOf: the first row of a key is kept.
DictOf_FirstWins(rs, k, v) ==
    [key \in {rs[i][k] : i \in 1..Len(rs)} |->
        LET first == CHOOSE i \in 1..Len(rs) :
                         /\ rs[i][k] = key
                         /\ \A j \in 1..(i - 1) : rs[j][k] # key
        IN  rs[first][v]]

\* {row[k]: row[v] for row in rs}: a later row replaces an earlier one.
DictOf(rs, k, v) ==
    [key \in {rs[i][k] : i \in 1..Len(rs)} |->
        LET last == CHOOSE i \in 1..Len(rs) :
                        /\ rs[i][k] = key
                        /\ \A j \in (i + 1)..Len(rs) : rs[j][k] # key
        IN  rs[last][v]]

SetProperties_Sql == SparkSql("sp_sql", "sp_collect", PropReplies)

\* props = {row['key']: row['value'] for row in df.collect()}
SetProperties_Collect ==
    /\ pc = "sp_collect"
    /\ \/ /\ rows' = df.rows
          /\ props' = DictOf(df.rows, "key", "value")
          /\ pc' = "sp_show"
          /\ UNCHANGED <<raised, exitCode>>
       \/ /\ Raise("EngineError")
          /\ UNCHANGED <<rows, props>>
    /\ UNCHANGED <<test, df, metadata, expected_rows, queries, ran, evaluated, failed>>

SetProperties_Show == DfShow("sp_show", "sp_assert1")

SetProperties_Assert(i) ==
    /\ AssertItem("sp_assert" \o ToString(i),
                  IF i < Len(PropKeys) THEN "sp_assert" \o ToString(i + 1) ELSE "if2",
                  props, PropKeys[i], PropWant[i])
    /\ UNCHANGED <<test, df, rows, props, metadata, expected_rows, queries, ran>>

testSetProperties ==
    \/ SetProperties_Sql
    \/ SetProperties_Collect
    \/ SetProperties_Show
    \/ \E i \in 1..Len(PropKeys) : SetProperties_Assert(i)

(***************************************************************************)
(* testAddedFile                                                           *)
(***************************************************************************)
\* Mutant of ExpectedCount: off by one.
ExpectedCount_OffByOne == 13 - 1

\* The count the second assert statement compares with.
ExpectedCount == 13

CountColumn == "count(1)"

\* What SELECT COUNT(*) may answer: rows of one column named count(1).
CountReplies ==
    {[schema |-> <<CountColumn>>, rows |-> rs] :
        rs \in SeqsUpTo({(CountColumn :> PyInt(n)) :
                            n \in (ExpectedCount - CountSpread)..(ExpectedCount + CountSpread)},
                        MaxCountRows)}

AddedFile_Sql == SparkSql("af_sql", "af_collect", CountReplies)

\* rows = df.collect()
AddedFile_Collect ==
    /\ pc = "af_collect"
    /\ \/ /\ rows' = df.rows
          /\ pc' = "af_show"
          /\ UNCHANGED <<raised, exitCode>>
       \/ /\ Raise("EngineError")
          /\ UNCHANGED rows
    /\ UNCHANGED <<test, df, props, metadata, expected_rows, queries, ran, evaluated, failed>>

AddedFile_Show == DfShow("af_show", "af_assert1")

\* assert len(rows) == 1
AddedFile_AssertLen ==
    /\ pc = "af_assert1"
    /\ AssertStmt("len(rows)", Len(rows) = 1, "af_assert2")
    /\ UNCHANGED <<test, df, rows, props, metadata, expected_rows, queries, ran>>

\* assert rows[0]["count(1)"] == 13
AddedFile_AssertCount ==
    /\ pc = "af_assert2"
    /\ IF rows = <<>>
          THEN IndexErrorStmt(CountColumn)
          ELSE AssertStmt(CountColumn, PyEq(rows[1][CountColumn], PyInt(ExpectedCount)), "if3")
    /\ UNCHANGED <<test, df, rows, props, metadata, expected_rows, queries, ran>>

testAddedFile ==
    \/ AddedFile_Sql
    \/ AddedFile_Collect
    \/ AddedFile_Show
    \/ AddedFile_AssertLen
    \/ AddedFile_AssertCount

(***************************************************************************)
(* testReadDifferentDataTypes                                              *)
(***************************************************************************)
SimpleType(n) == [t |-> n]
DecimalType(p, s) == [t |-> "DecimalType", precision |-> p, scale |-> s]
ArrayType(e) == [t |-> "ArrayType", elementType |-> e, containsNull |-> TRUE]
StructField(n, ty, nullable) == [name |-> n, dataType |-> ty, nullable |-> nullable]

\* schema = StructType([...])
schema ==
    << StructField("bool", SimpleType("BooleanType"), TRUE),
       StructField("string", SimpleType("StringType"), TRUE),
       StructField("string_long", SimpleType("StringType"), TRUE),
       StructField("int", SimpleType("IntegerType"), TRUE),
       StructField("long", SimpleType("LongType"), TRUE),
       StructField("float", SimpleType("FloatType"), TRUE),
       StructField("double", SimpleType("DoubleType"), TRUE),
       StructField("timestamp", SimpleType("TimestampNTZType"), TRUE),
       StructField("timestamptz", SimpleType("TimestampType"), TRUE),
       StructField("date", SimpleType("DateType"), TRUE),
       StructField("uuid", SimpleType("StringType"), TRUE),
       StructField("binary", SimpleType("BinaryType"), TRUE),
       StructField("fixed", SimpleType("BinaryType"), TRUE),
       StructField("small_dec", DecimalType(8, 2), TRUE),
       StructField("med_dec", DecimalType(16, 2), TRUE),
       StructField("large_dec", DecimalType(24, 2), TRUE),
       StructField("list", ArrayType(SimpleType("IntegerType")), TRUE) >>

\* expected = [Row(...), Row(...), Row(...)]
expected ==
    << << PyBool(FALSE),
          Str("a"),
          Str(RepeatStr("a", 22)),
          PyInt(1),
          PyInt(1),
          PyFloat("0.0"),
          PyFloat("0.0"),
          DateTime(2023, 1, 1, 11, 25),
          DateTime(2023, 1, 1, 19, 25),
          Date(2023, 1, 1),
          Str("00000000-0000-0000-0000-000000000000"),
          ByteArray(<<1>>),
          ByteArray(Repeat(<<0>>, 16)),
          Decimal(0, <<1,2,3,4,5,6,7,8>>, -2),
          Decimal(0, <<1,2,3,4,5,6,7,8,9,0,1,2,3,4,5,6>>, -2),
          Decimal(0, <<1,2,3,4,5,6,7,8,9,0,1,2,3,4,5,6,7,8,9,0,1,2,3,4>>, -2),
          PyList(<<1, 2, 3>>) >>,
       [j \in 1..17 |-> None],
       << PyBool(TRUE),
          Str("z"),
          Str(RepeatStr("z", 22)),
          PyInt(9),
          PyInt(9),
          PyFloat("0.9"),
          PyFloat("0.9"),
          DateTime(2023, 3, 1, 11, 25),
          DateTime(2023, 3, 1, 19, 25),
          Date(2023, 3, 1),
          Str("11111111-1111-1111-1111-111111111111"),
          ByteArray(<<18>>),
          ByteArray(Repeat(<<17>>, 16)),
          Decimal(0, <<8,7,6,5,4,3,2,1>>, -2),
          Decimal(0, <<6,5,4,3,2,1,0,9,8,7,6,5,4,3,2,1>>, -2),
          Decimal(0, <<4,3,2,1,0,9,8,7,6,5,4,3,2,1,0,9,8,7,6,5,4,3,2,1>>, -2),
          PyList(<<-1, -2, -3>>) >> >>

\* A Python float stored in a FloatType column and read back: the nearest
\* float32, widened to a double again.
ToFloat32(r) == IF r = "0.9" THEN "0.8999999761581421" ELSE r

\* A Decimal read from a DecimalType(p, s) column: the same number with
\* exactly s fractional digits.
AtScale(d, s) ==
    IF d.exp >= -s
       THEN Decimal(d.sign, d.digits \o Repeat(<<0>>, d.exp + s), -s)
       ELSE d

\* The Python value a DataFrame hands back for value x in a column of type ty.
FromColumn(x, ty) ==
    IF x.t = "NoneType" THEN None
    ELSE IF ty.t = "FloatType" /\ x.t = "float" THEN PyFloat(ToFloat32(x.v))
    ELSE IF ty.t = "DecimalType" /\ x.t = "Decimal" THEN AtScale(x, ty.scale)
    ELSE x

\* DataFrame(data, sch).collect(): every row has one cell per field.
CollectRows(data, sch) ==
    [i \in 1..Len(data) |-> [j \in 1..Len(sch) |-> FromColumn(data[i][j], sch[j].dataType)]]

\* f with its i-th element replaced by x.
WithElem(f, i, x) == [f EXCEPT ![i] = x]

\* How far a reported decimal type may be from the declared one:
\* <<added precision, added scale>>.
DecimalDrift == {<<1, 0>>, <<1, 1>>, <<2, 1>>}

DecimalFields == {i \in 1..Len(schema) : schema[i].dataType.t = "DecimalType"}

\* Schemas the engine may report for the table: the expected one, one with
\* a decimal field at another precision/scale, and other single-field
\* differences (type, nullability, name, a missing field).
ActualSchemas ==
    {schema}
    \cup {WithElem(schema, i,
                   StructField(schema[i].name,
                               DecimalType(schema[i].dataType.precision + d[1],
                                           schema[i].dataType.scale + d[2]),
                               TRUE)) :
             i \in DecimalFields, d \in DecimalDrift}
    \cup {WithElem(schema, 4, StructField("int", SimpleType("LongType"), TRUE)),
          WithElem(schema, 9, StructField("timestamptz", SimpleType("TimestampNTZType"), TRUE)),
          WithElem(schema, 11, StructField("uuid", SimpleType("StringType"), FALSE)),
          WithElem(schema, 17, StructField("lst", ArrayType(SimpleType("IntegerType")), TRUE)),
          SubSeq(schema, 1, 16)}

\* The orders in which three rows can come back.
Orders3 == {<<1,2,3>>, <<1,3,2>>, <<2,1,3>>, <<2,3,1>>, <<3,1,2>>, <<3,2,1>>}

\* Single cells the table may hold differently: <<row, column, value>>.
CellChanges ==
    { <<1, 2, Str("b")>>,
      <<2, 4, PyInt(0)>>,
      <<3, 1, None>>,
      <<3, 6, PyFloat("0.5")>>,
      <<1, 12, ByteArray(<<1, 0>>)>>,
      <<1, 14, Decimal(0, <<1,2,3,4,5,6,7,9>>, -2)>>,
      <<3, 17, PyList(<<-1, -2>>)>> }

\* Contents the table may have: the three expected rows in any order, with
\* a row missing or repeated, with one cell different, or no rows at all.
TableContents ==
    {[i \in 1..3 |-> expected[o[i]]] : o \in Orders3}
    \cup {<<expected[2], expected[3]>>, <<expected[1], expected[3]>>,
          <<expected[1], expected[2]>>, <<>>,
          expected \o <<expected[3]>>}
    \cup {WithElem(expected, c[1], WithElem(expected[c[1]], c[2], c[3])) : c \in CellChanges}

\* What SELECT * may answer: a reported schema and the table's contents as
\* that schema types them.
DataTypesReplies ==
    {[schema |-> s, rows |-> CollectRows(data, s)] : s \in ActualSchemas, data \in TableContents}

\* Mutant of StructTypeEq: data types are compared by their type name only.
StructTypeEq_TypeNameOnly(a, b) ==
    /\ Len(a) = Len(b)
    /\ \A i \in 1..Len(a) :
          /\ a[i].name = b[i].name
          /\ a[i].dataType.t = b[i].dataType.t
          /\ a[i].nullable = b[i].nullable

\* StructType.__eq__: the same fields, each with the same name, data type
\* (for a decimal its precision and scale) and nullability.
StructTypeEq(a, b) == a = b

\* Mutant of DataTypesFlow: the rows are compared before the schemas.
DataTypesFlow_RowsFirst(here) ==
    CASE here = "dt_sql" -> "dt_show"
      [] here = "dt_show" -> "dt_collect"
      [] here = "dt_collect" -> "dt_collect_expected"
      [] here = "dt_collect_expected" -> "dt_assert_len"
      [] here = "dt_assert_len" -> "dt_assert_rows"
      [] here = "dt_assert_rows" -> "dt_assert_schema"
      [] here = "dt_assert_schema" -> "if4"

\* The statement of testReadDifferentDataTypes that follows statement `here`.
DataTypesFlow(here) ==
    CASE here = "dt_sql" -> "dt_show"
      [] here = "dt_show" -> "dt_collect"
      [] here = "dt_collect" -> "dt_assert_schema"
      [] here = "dt_assert_schema" -> "dt_collect_expected"
      [] here = "dt_collect_expected" -> "dt_assert_len"
      [] here = "dt_assert_len" -> "dt_assert_rows"
      [] here = "dt_assert_rows" -> "if4"

DifferentDataTypes_Sql == SparkSql("dt_sql", DataTypesFlow("dt_sql"), DataTypesReplies)

DifferentDataTypes_Show == DfShow("dt_show", DataTypesFlow("dt_show"))

\* actual_rows = actual_df.collect()
DifferentDataTypes_Collect ==
    /\ pc = "dt_collect"
    /\ \/ /\ rows' = df.rows
          /\ pc' = DataTypesFlow("dt_collect")
          /\ UNCHANGED <<raised, exitCode>>
       \/ /\ Raise("EngineError")
          /\ UNCHANGED rows
    /\ UNCHANGED <<test, df, props, metadata, expected_rows, queries, ran, evaluated, failed>>

\* expected_df = spark.createDataFrame(expected, schema=schema)
\* assert expected_df.schema == actual_df.schema, "Schema mismatch"
DifferentDataTypes_AssertSchema ==
    /\ pc = "dt_assert_schema"
    /\ AssertStmt("schema", StructTypeEq(schema, df.schema), DataTypesFlow("dt_assert_schema"))
    /\ UNCHANGED <<test, df, rows, props, metadata, expected_rows, queries, ran>>

\* expected_rows = expected_df.collect()
DifferentDataTypes_CollectExpected ==
    /\ pc = "dt_collect_expected"
    /\ \/ /\ expected_rows' = CollectRows(expected, schema)
          /\ pc' = DataTypesFlow("dt_collect_expected")
          /\ UNCHANGED <<raised, exitCode>>
       \/ /\ Raise("EngineError")
          /\ UNCHANGED expected_rows
    /\ UNCHANGED <<test, df, rows, props, metadata, queries, ran, evaluated, failed>>

\* assert len(expected_rows) == len(actual_rows)
DifferentDataTypes_AssertLen ==
    /\ pc = "dt_assert_len"
    /\ AssertStmt("len(rows)", Len(expected_rows) = Len(rows), DataTypesFlow("dt_assert_len"))
    /\ UNCHANGED <<test, df, rows, props, metadata, expected_rows, queries, ran>>

\* assert expected_rows == actual_rows
DifferentDataTypes_AssertRows ==
    /\ pc = "dt_assert_rows"
    /\ AssertStmt("rows", RowsEq(expected_rows, rows), DataTypesFlow("dt_assert_rows"))
    /\ UNCHANGED <<test, df, rows, props, metadata, expected_rows, queries, ran>>

testReadDifferentDataTypes ==
    \/ DifferentDataTypes_Sql
    \/ DifferentDataTypes_Show
    \/ DifferentDataTypes_Collect
    \/ DifferentDataTypes_AssertSchema
    \/ DifferentDataTypes_CollectExpected
    \/ DifferentDataTypes_AssertLen
    \/ DifferentDataTypes_AssertRows

(***************************************************************************)
(* testReadSpecUpdate                                                      *)
(***************************************************************************)
PartKeys == <<"Part 0", "Part 1">>

\* The strings the two assert statements compare with.
PartWant == <<"truncate(5, bar)", "bucket(3, baz)">>

\* Rows DESCRIBE TABLE EXTENDED may hold: col_name null or a partition key,
\* data_type one of the expected renderings or another rendering.
DescRowKinds ==
    {[col_name |-> c, data_type |-> Str(d), comment |-> Str("")] :
        c \in {None, Str("Part 0"), Str("Part 1")},
        d \in {"truncate(5, bar)", "bucket(3, baz)", "truncate(5,bar)"}}

DescReplies ==
    {[schema |-> <<"col_name", "data_type", "comment">>, rows |-> rs] :
        rs \in SeqsUpTo(DescRowKinds, MaxDescRows)}

\* [row for row in rs if row["col_name"] is not None]
NotNullCol(rs) == SelectSeq(rs, LAMBDA r : r.col_name # None)

SpecUpdate_Sql == SparkSql("su_sql", "su_show", DescReplies)

SpecUpdate_Show == DfShow("su_show", "su_collect")

\* rows = df.collect()
\* metadata = {row["col_name"]: row["data_type"] for row in rows
\*             if row["col_name"] is not None}
SpecUpdate_Collect ==
    /\ pc = "su_collect"
    /\ \/ /\ rows' = df.rows
          /\ metadata' = DictOf(NotNullCol(df.rows), "col_name", "data_type")
          /\ pc' = "su_assert1"
          /\ UNCHANGED <<raised, exitCode>>
       \/ /\ Raise("EngineError")
          /\ UNCHANGED <<rows, metadata>>
    /\ UNCHANGED <<test, df, props, expected_rows, queries, ran, evaluated, failed>>

SpecUpdate_Assert(i) ==
    /\ AssertItem("su_assert" \o ToString(i),
                  IF i < Len(PartKeys) THEN "su_assert" \o ToString(i + 1) ELSE "exit",
                  metadata, PartKeys[i], PartWant[i])
    /\ UNCHANGED <<test, df, rows, props, metadata, expected_rows, queries, ran>>

testReadSpecUpdate ==
    \/ SpecUpdate_Sql
    \/ SpecUpdate_Show
    \/ SpecUpdate_Collect
    \/ \E i \in 1..Len(PartKeys) : SpecUpdate_Assert(i)

(***************************************************************************)
(* The script                                                              *)
(***************************************************************************)
NoDf == [schema |-> <<>>, rows |-> <<>>]

NoException == [exc |-> "none", at |-> "none"]

Init ==
    /\ test \in TestArgs
    /\ pc = "if1"
    /\ df = NoDf
    /\ rows = <<>>
    /\ props = <<>>
    /\ metadata = <<>>
    /\ expected_rows = <<>>
    /\ queries = 0
    /\ ran = <<>>
    /\ evaluated = <<>>
    /\ failed = <<>>
    /\ raised = NoException
    /\ exitCode = Running

Next ==
    \/ If1
    \/ If2
    \/ If3
    \/ If4
    \/ Exit
    \/ testSetProperties
    \/ testAddedFile
    \/ testReadDifferentDataTypes
    \/ testReadSpecUpdate

Spec == Init /\ [][Next]_vars

(***************************************************************************)
(* Properties.  The expectations below are written from the scenarios'     *)
(* descriptions and are evaluated on the engine's reply (df), apart from   *)
(* the statements that the scenario functions execute.                     *)
(***************************************************************************)
Done == exitCode # Running

\* No call into the engine raised: the reply in df is the engine's answer.
EngineAnswered == queries = 1 /\ raised.exc # "EngineError"

RECURSIVE LastValue(_, _, _, _, _)
\* <<v>> for the value column v of the last row of rs whose key column k
\* holds the string key, <<>> when no row does.
LastValue(rs, k, v, key, acc) ==
    IF rs = <<>> THEN acc
    ELSE LastValue(Tail(rs), k, v, key,
                   IF Head(rs)[k] = Str(key) THEN <<Head(rs)[v]>> ELSE acc)

\* The declared properties of scenario SetProperties.
DeclaredProps ==
    << <<"write.parquet.compression-codec", "snappy">>,
       <<"commit.manifest-merge.enabled", "true">>,
       <<"commit.manifest.min-count-to-merge", "1">>,
       <<"commit.manifest.target-size-bytes", "1">> >>

\* The declared partition-transform descriptors of scenario ReadSpecUpdate.
DeclaredParts == << <<"Part 0", "truncate(5, bar)">>, <<"Part 1", "bucket(3, baz)">> >>

\* The declared decimal fields of scenario DifferentDataTypes.
DeclaredDecimals ==
    { <<"small_dec", <<8, 2>> >>, <<"med_dec", <<16, 2>> >>, <<"large_dec", <<24, 2>> >> }

\* The reply's value for a property, as <<v>> or <<>>.
ActualProp(key) == LastValue(df.rows, "key", "value", key, <<>>)
ActualPart(key) == LastValue(df.rows, "col_name", "data_type", key, <<>>)

\* The expected rows as the engine hands them back under the expected schema.
ExpectedCollected == CollectRows(expected, schema)

\* The scenario's checks in the order its function states them.
CheckOrder ==
    CASE test = "TestSetProperties" -> [i \in 1..4 |-> DeclaredProps[i][1]]
      [] test = "TestAddedFile" -> <<"len(rows)", "count(1)">>
      [] test = "TestReadDifferentDataTypes" -> <<"schema", "len(rows)", "rows">>
      [] test = "TestReadSpecUpdate" -> [i \in 1..2 |-> DeclaredParts[i][1]]
      [] OTHER -> <<>>

\* The checks of the scenario that the engine's reply violates.
Violated ==
    CASE test = "TestSetProperties" ->
            {DeclaredProps[i][1] : i \in {j \in 1..4 :
                ActualProp(DeclaredProps[j][1]) # <<Str(DeclaredProps[j][2])>>}}
      [] test = "TestAddedFile" ->
            (IF Len(df.rows) # 1 THEN {"len(rows)"} ELSE {})
            \cup (IF df.rows = <<>> \/ df.rows[1]["count(1)"] # PyInt(13)
                     THEN {"count(1)"} ELSE {})
      [] test = "TestReadDifferentDataTypes" ->
            (IF df.schema # schema THEN {"schema"} ELSE {})
            \cup (IF Len(df.rows) # 3 THEN {"len(rows)"} ELSE {})
            \cup (IF ~RowsEq(ExpectedCollected, df.rows) THEN {"rows"} ELSE {})
      [] test = "TestReadSpecUpdate" ->
            {DeclaredParts[i][1] : i \in {j \in 1..2 :
                ActualPart(DeclaredParts[j][1]) # <<Str(DeclaredParts[j][2])>>}}
      [] OTHER -> {}

\* The first violated check in the scenario's order (when one is violated).
FirstViolated ==
    CheckOrder[CHOOSE i \in 1..Len(CheckOrder) :
                  /\ CheckOrder[i] \in Violated
                  /\ \A j \in 1..(i - 1) : CheckOrder[j] \notin Violated]

IsPrefix(a, b) == Len(a) <= Len(b) /\ a = SubSeq(b, 1, Len(a))

\* C1: with --test one of the four scenario names, exactly that scenario
\* is run, and the finished process has exit status 0 if and only if the
\* engine answered and its reply meets every expectation of the scenario;
\* a failed assert or an engine error always gives a non-zero status.
C1_ExitStatusIsVerdict ==
    (Done /\ test \in TestNames) =>
        /\ ran = <<test>>
        /\ exitCode = 0 <=> (EngineAnswered /\ Violated = {})
        /\ (failed # <<>> \/ raised.exc # "none") => exitCode # 0

C1_Witness ==
    /\ Done /\ test = "TestReadDifferentDataTypes"
    /\ exitCode = 0 /\ evaluated = <<"schema", "len(rows)", "rows">>

ScenarioState ==
    IF raised.exc # "none" THEN "Failed"
    ELSE IF ran = <<>> THEN "Pending"
    ELSE IF pc \in {"if1", "if2", "if3", "if4", "exit", "done"} THEN "Passed"
    ELSE "Executing"

\* The engine failed while serving the scenario's statement (when it was
\* issued, collected or shown).
QueryFailed ==
    /\ raised.exc = "EngineError"
    /\ raised.at \in {"sp_sql", "sp_collect", "sp_show", "af_sql", "af_collect", "af_show",
                      "dt_sql", "dt_show", "dt_collect", "su_sql", "su_show", "su_collect"}

C3_StateInv ==
    /\ queries <= 1
    /\ ScenarioState \in {"Passed", "Failed"} => queries = 1
    /\ (Done /\ test \in TestNames) => ScenarioState \in {"Passed", "Failed"}
    /\ ScenarioState = "Failed" => exitCode # 0 /\ Done
    /\ QueryFailed => /\ evaluated = <<>>
                      /\ failed = <<>>
                      /\ ScenarioState = "Failed"
                      /\ exitCode # 0

C3_Step ==
    /\ ScenarioState' # ScenarioState =>
          <<ScenarioState, ScenarioState'>> \in
              {<<"Pending", "Executing">>, <<"Executing", "Passed">>,
               <<"Executing", "Failed">>}
    /\ queries' # queries => (queries = 0 /\ queries' = 1 /\ ScenarioState = "Executing")
    /\ raised.exc = "none"

\* C3: a scenario run goes Pending -> Executing -> Passed or Failed and
\* nowhere else; it issues its one statement while Executing and never a
\* second one, nothing runs after an exception, and a failure of the
\* query ends the run Failed with a non-zero status and no assert
\* evaluated.
C3_RunStateMachine == [] C3_StateInv /\ [][C3_Step]_vars

C3_Witness == QueryFailed /\ raised.at = "dt_collect" /\ exitCode = 1

\* C4: SetProperties with the four declared values passes with no
\* discrepancy; with exactly one of the four values another string it
\* fails with exactly one discrepancy, an AssertionError on that key.
C4_SetProperties ==
    (Done /\ EngineAnswered /\ test = "TestSetProperties"
          /\ \A i \in 1..4 : ActualProp(DeclaredProps[i][1]) # <<>>) =>
        LET differs == {i \in 1..4 :
                           ActualProp(DeclaredProps[i][1]) # <<Str(DeclaredProps[i][2])>>}
        IN  /\ differs = {} => (exitCode = 0 /\ failed = <<>>)
            /\ \A i \in 1..4 : differs = {i} =>
                  /\ exitCode # 0
                  /\ failed = <<[label |-> DeclaredProps[i][1], exc |-> "AssertionError"]>>

C4_Witness ==
    /\ Done /\ EngineAnswered /\ test = "TestSetProperties"
    /\ ActualProp("write.parquet.compression-codec") = <<Str("snappy")>>
    /\ ActualProp("commit.manifest-merge.enabled") = <<Str("true")>>
    /\ ActualProp("commit.manifest.min-count-to-merge") = <<Str("1")>>
    /\ ActualProp("commit.manifest.target-size-bytes") = <<Str("zstd")>>
    /\ Len(failed) = 1

\* A declared decimal field that the reply's schema types with another
\* precision or scale.
DriftedDecimals ==
    {d \in DeclaredDecimals :
        \E i \in 1..Len(df.schema) :
            /\ df.schema[i].name = d[1]
            /\ df.schema[i].dataType.t = "DecimalType"
            /\ <<df.schema[i].dataType.precision, df.schema[i].dataType.scale>> # d[2]}

\* C5: DifferentDataTypes fails whenever the engine reports small_dec,
\* med_dec or large_dec at a precision or scale other than (8,2), (16,2),
\* (24,2), also when every reported value is numerically equal to the
\* expected one.
C5_DecimalTypeExact ==
    (Done /\ EngineAnswered /\ test = "TestReadDifferentDataTypes" /\ DriftedDecimals # {}) =>
        /\ exitCode # 0
        /\ failed = <<[label |-> "schema", exc |-> "AssertionError"]>>

C5_Witness ==
    /\ Done /\ EngineAnswered /\ test = "TestReadDifferentDataTypes"
    /\ df.schema[14].dataType = DecimalType(9, 3)
    /\ Len(df.rows) = 3
    /\ df.rows[1][14] = Decimal(0, <<1,2,3,4,5,6,7,8,0>>, -3)
    /\ RowsEq(ExpectedCollected, df.rows)
    /\ exitCode = 1

\* C6: ReadSpecUpdate passes exactly when the map of the rows with a
\* non-null col_name gives "Part 0" the string "truncate(5, bar)" and
\* "Part 1" the string "bucket(3, baz)"; otherwise it fails at the first
\* of the two keys that is absent (KeyError) or differs (AssertionError).
C6_SpecUpdate ==
    (Done /\ EngineAnswered /\ test = "TestReadSpecUpdate") =>
        LET bad == {i \in 1..2 : ActualPart(DeclaredParts[i][1]) # <<Str(DeclaredParts[i][2])>>}
        IN  /\ exitCode = 0 <=> bad = {}
            /\ \A i \in bad : (\A j \in bad : i <= j) =>
                  failed = <<[label |-> DeclaredParts[i][1],
                              exc |-> IF ActualPart(DeclaredParts[i][1]) = <<>>
                                         THEN "KeyError" ELSE "AssertionError"]>>

C6_Witness ==
    /\ Done /\ EngineAnswered /\ test = "TestReadSpecUpdate"
    /\ Len(df.rows) = 3
    /\ df.rows[1].col_name = Str("Part 0") /\ df.rows[1].data_type = Str("truncate(5,bar)")
    /\ df.rows[2].col_name = Str("Part 0") /\ df.rows[2].data_type = Str("truncate(5, bar)")
    /\ df.rows[3].col_name = Str("Part 1") /\ df.rows[3].data_type = Str("bucket(3, baz)")
    /\ exitCode = 0

\* C7: AddedFile passes when the count query's single row reports 13, and
\* fails with exactly one discrepancy, on the count, for any other count.
C7_AddedFile ==
    (Done /\ EngineAnswered /\ test = "TestAddedFile" /\ Len(df.rows) = 1) =>
        IF df.rows[1]["count(1)"] = PyInt(13)
           THEN exitCode = 0 /\ failed = <<>>
           ELSE exitCode # 0 /\ failed = <<[label |-> "count(1)", exc |-> "AssertionError"]>>

C7_Witness ==
    /\ Done /\ EngineAnswered /\ test = "TestAddedFile"
    /\ df.rows = <<("count(1)" :> PyInt(12))>>
    /\ Len(failed) = 1

\* The kind of a check, in the order schema, rows, properties, derived.
CheckRank(label) ==
    IF label = "schema" THEN 1
    ELSE IF label \in {"len(rows)", "rows"} THEN 2
    ELSE IF test = "TestSetProperties" THEN 3
    ELSE 4

\* C8: the checks of a run are evaluated in the scenario's fixed order,
\* schema, then rows, then properties, then derived values; in
\* DifferentDataTypes the schema comparison comes first, the row-count
\* comparison second and the row-content comparison third.
C8_FixedCheckOrder ==
    /\ IsPrefix(evaluated, CheckOrder)
    /\ \A i, j \in 1..Len(evaluated) : i < j => CheckRank(evaluated[i]) <= CheckRank(evaluated[j])
    /\ test = "TestReadDifferentDataTypes" => IsPrefix(evaluated, <<"schema", "len(rows)", "rows">>)

C8_Witness ==
    /\ test = "TestReadDifferentDataTypes"
    /\ evaluated = <<"schema", "len(rows)", "rows">>
    /\ failed # <<>>

\* C9: with --test none of the four names no scenario function is run, no
\* statement is issued, nothing is evaluated and the process exits 0; and
\* whatever --test is, at most one scenario function is run.
C9_UnknownTestExitsZero ==
    /\ Len(ran) <= 1
    /\ test \notin {"TestSetProperties", "TestAddedFile",
                    "TestReadDifferentDataTypes", "TestReadSpecUpdate"} =>
          /\ ran = <<>> /\ queries = 0 /\ evaluated = <<>> /\ raised.exc = "none"
          /\ Done => exitCode = 0

C9_Witness == Done /\ test = "testsetproperties" /\ exitCode = 0

\* C10: DifferentDataTypes with the expected schema passes exactly when
\* the reply has three rows and its i-th row equals the i-th expected row;
\* the three expected rows in any other order fail.
C10_RowsPositional ==
    (Done /\ EngineAnswered /\ test = "TestReadDifferentDataTypes" /\ df.schema = schema) =>
        /\ exitCode = 0 <=>
              /\ Len(df.rows) = 3
              /\ \A i \in 1..3 : SeqEq(df.rows[i], ExpectedCollected[i])
        /\ \A o \in Orders3 \ {<<1, 2, 3>>} :
              df.rows = [i \in 1..3 |-> ExpectedCollected[o[i]]] => exitCode # 0

C10_Witness ==
    /\ Done /\ EngineAnswered /\ test = "TestReadDifferentDataTypes" /\ df.schema = schema
    /\ df.rows = <<ExpectedCollected[3], ExpectedCollected[2], ExpectedCollected[1]>>
    /\ exitCode = 1
====
